---- MODULE Spec2Model ----
(***************************************************************************)
(* Model of artgc-core: the arithmetic circuit builder (circuit.rs), the   *)
(* cycle detector (detect_cycle.rs) and the layer assigner / local         *)
(* evaluator (eval_local.rs).                                              *)
(*                                                                         *)
(* The state is one Circuit (its five fields) together with the record of  *)
(* the most recent call made on it: which function ran (call), the         *)
(* arguments it was given (arg) and what it returned (ret).  A function    *)
(* that aborts (a Rust panic: an out-of-bounds index, an unwrap of None)   *)
(* returns Panic; a function whose loop never ends returns Diverge.        *)
(*                                                                         *)
(* Spec takes every call as one step.  SpecDfs runs detect_cycle one       *)
(* statement group at a time; walk holds the locals of the running         *)
(* activation: gate_visited, the stack of dfs frames, the seed gates the   *)
(* for loop has still to take, and the Option passed up by a returning     *)
(* dfs call.                                                               *)
(*                                                                         *)
(* Wire ids handed to the builder are always ids that create_new_wire has  *)
(* issued (ids below wire_count): the builder leaves that to its caller.   *)
(* Ring values are integers with the usual + and *.                        *)
(***************************************************************************)
EXTENDS Integers, Sequences, FiniteSets, TLC

VARIABLES inputs, outputs, gates, wire_count, gate_count, call, arg, ret, walk

vars == <<inputs, outputs, gates, wire_count, gate_count, call, arg, ret, walk>>

circuit == <<inputs, outputs, gates, wire_count, gate_count>>

\* ------------------------------------------------------------------ bounds
\* the number of builder calls (create_new_wire, add_gate, mark_input,
\* mark_output) made on the circuit
MaxCalls == 6

\* of these calls at most a half create wires and at most a third add gates
MaxWires == MaxCalls \div 2
MaxGates == MaxCalls \div 3

\* ring elements supplied as input values
Vals == {2, 3}

\* ------------------------------------------------------------------ values
GateType == {"Add", "Mul"}

None == [tag |-> "None"]
Some(v) == [tag |-> "Some", v |-> v]
Ok(v) == [tag |-> "Ok", v |-> v]
Err(e) == [tag |-> "Err", e |-> e]
\* the call aborted (index out of bounds, unwrap of None)
Panic == [tag |-> "Panic"]
\* the call never returns
Diverge == [tag |-> "Diverge"]
\* the unit value ()
Unit == <<>>
\* a function that returns a plain value (not an Option or a Result) returned v
Return(v) == [tag |-> "Return", v |-> v]
\* a returned WireId, a returned gate id
WireId(n) == [tag |-> "WireId", n |-> n]
GateId(n) == [tag |-> "usize", n |-> n]
\* the arguments of a call
NoArgs == [tag |-> "NoArgs"]

Max(a, b) == IF a >= b THEN a ELSE b

\* ------------------------------------------------------------------ Gate
Gate(type, id, x, y, out) == [type |-> type, id |-> id, x |-> x, y |-> y, out |-> out]

get_output(g) == g.out
get_inputs(g) == <<g.x, g.y>>
gate_type(g) == g.type

\* ------------------------------------------------------------------ Circuit
is_valid_swapped(ins, outs) ==
    IF outs = <<>> THEN Err("EmptyOutput")
    ELSE IF ins = <<>> THEN Err("EmptyInput")
    ELSE Ok(Unit)

is_valid(ins, outs) ==
    IF ins = <<>> THEN Err("EmptyInput")
    ELSE IF outs = <<>> THEN Err("EmptyOutput")
    ELSE Ok(Unit)

\* ------------------------------------------------------------------ detect_cycle
\* wire_connections[w].to_ids: the gates wire w goes into, in push order
\* (a gate that takes w as both x and y is pushed twice)
RECURSIVE to_ids(_, _, _)
to_ids(gs, w, k) ==
    IF k > Len(gs) THEN <<>>
    ELSE (IF gs[k].x = w THEN <<gs[k].id>> ELSE <<>>)
         \o (IF gs[k].y = w THEN <<gs[k].id>> ELSE <<>>)
         \o to_ids(gs, w, k + 1)

\* the gates that consume a marked input wire
input_gates(gs, ins) ==
    {id \in 0..(Len(gs) - 1) :
        \E i \in 1..Len(ins) : gs[id + 1].x = ins[i] \/ gs[id + 1].y = ins[i]}

\* dfs returns <<result, gate_visited>>; gate ids are 0-based, sequences 1-based
RECURSIVE dfs(_, _, _, _), dfs_succ(_, _, _, _, _)
\* dfs that leaves the gate marked when its walk found no cycle
dfs_keeps_mark(gate_id, wire_id, gs, gate_visited) ==
    LET id == gs[gate_id + 1].id
        out == gs[gate_id + 1].out
    IN  IF gate_visited[id + 1] # 0
        THEN <<Some(<<gate_id, wire_id>>), gate_visited>>
        ELSE dfs_succ(to_ids(gs, out, 1), 1, out, gs,
                      [gate_visited EXCEPT ![id + 1] = @ + 1])

\* dfs that reports the re-entered gate's own output wire
dfs_reports_own_output(gate_id, wire_id, gs, gate_visited) ==
    LET id == gs[gate_id + 1].id
        out == gs[gate_id + 1].out
    IN  IF gate_visited[id + 1] # 0
        THEN <<Some(<<gate_id, out>>), gate_visited>>
        ELSE LET entered == [gate_visited EXCEPT ![id + 1] = @ + 1]
                 r == dfs_succ(to_ids(gs, out, 1), 1, out, gs, entered)
             IN  IF r[1] # None THEN r
                 ELSE <<None, [r[2] EXCEPT ![id + 1] = @ - 1]>>

dfs(gate_id, wire_id, gs, gate_visited) ==
    LET id == gs[gate_id + 1].id
        out == gs[gate_id + 1].out
    IN  IF gate_visited[id + 1] # 0
        THEN <<Some(<<gate_id, wire_id>>), gate_visited>>
        ELSE LET entered == [gate_visited EXCEPT ![id + 1] = @ + 1]
                 r == dfs_succ(to_ids(gs, out, 1), 1, out, gs, entered)
             IN  IF r[1] # None THEN r
                 ELSE <<None, [r[2] EXCEPT ![id + 1] = @ - 1]>>

\* the loop over wire.to_ids of the gate's output wire
dfs_succ(succ, k, out, gs, gate_visited) ==
    IF k > Len(succ) THEN <<None, gate_visited>>
    ELSE LET r == dfs(succ[k], out, gs, gate_visited)
         IN  IF r[1] # None THEN r
             ELSE dfs_succ(succ, k + 1, out, gs, r[2])

\* the loop over the seed gates, in the order the HashSet yields them
RECURSIVE seed_loop(_, _, _, _)
seed_loop(order, k, gs, gate_visited) ==
    IF k > Len(order) THEN None
    ELSE LET r == dfs(order[k], 0, gs, gate_visited)
         IN  IF r[1] # None THEN r[1]
             ELSE seed_loop(order, k + 1, gs, r[2])

detect_cycle(gs, ins, order) ==
    seed_loop(order, 1, gs, [g \in 1..Len(gs) |-> 0])

\* the iteration orders of a HashSet holding the elements of S
Orders(S) ==
    {o \in [1..Cardinality(S) -> S] : \A i, j \in 1..Cardinality(S) : i # j => o[i] # o[j]}

DetectCycle ==
    /\ \E order \in Orders(input_gates(gates, inputs)) :
          ret' = detect_cycle(gates, inputs, order)
    /\ call' = "detect_cycle"
    /\ arg' = NoArgs
    /\ UNCHANGED circuit
    /\ UNCHANGED walk

\* ------------------------------------------------------------------ eval_local
\* struct Wire: Option layer, Option value; wire w is element w + 1
Wire(layer, value) == [layer |-> layer, value |-> value]

is_some(o) == o.tag = "Some"

unwrap(o) == o.v

\* the loop that puts layer 0 on the marked input wires
RECURSIVE put_input_layers(_, _, _)
put_input_layers(ins, k, wires) ==
    IF k > Len(ins) THEN wires
    ELSE put_input_layers(ins, k + 1, [wires EXCEPT ![ins[k] + 1].layer = Some(0)])

\* the loop condition met as soon as one wire has a layer
some_have_layer(wires) == \E w \in 1..Len(wires) : is_some(wires[w].layer)

all_have_layer(wires) == \A w \in 1..Len(wires) : is_some(wires[w].layer)

\* gate_layers.resize(n, vec![]) followed by gate_layers[current_layer].push(i)
resize(gate_layers, n) ==
    [L \in 1..n |-> IF L <= Len(gate_layers) THEN gate_layers[L] ELSE <<>>]

push_gate_at_output_layer(gate_layers, current_layer, i) ==
    LET grown == IF current_layer + 1 >= Len(gate_layers)
                 THEN resize(gate_layers, current_layer + 2)
                 ELSE gate_layers
    IN  [grown EXCEPT ![current_layer + 2] = Append(@, i)]

\* the gate pushed only when the bucket list had to grow
push_gate_only_when_grown(gate_layers, current_layer, i) ==
    IF current_layer >= Len(gate_layers)
    THEN [resize(gate_layers, current_layer + 1) EXCEPT ![current_layer + 1] = Append(@, i)]
    ELSE gate_layers

push_gate(gate_layers, current_layer, i) ==
    LET grown == IF current_layer >= Len(gate_layers)
                 THEN resize(gate_layers, current_layer + 1)
                 ELSE gate_layers
    IN  [grown EXCEPT ![current_layer + 1] = Append(@, i)]

\* max(x_layer.unwrap(), y_layer.unwrap())
current_layer_x_only(x_layer, y_layer) == unwrap(x_layer)

current_layer_min(x_layer, y_layer) ==
    IF unwrap(x_layer) <= unwrap(y_layer) THEN unwrap(x_layer) ELSE unwrap(y_layer)

current_layer_of(x_layer, y_layer) == Max(unwrap(x_layer), unwrap(y_layer))

\* the layer written to the gate's output wire
output_layer_plus_two(current_layer) == current_layer + 2

output_layer(current_layer) == current_layer + 1

\* the index of the next gate to look at
next_i(i, wires, gs) == IF i = Len(wires) - 1 THEN 0 ELSE i + 1

\* the while loop; idle counts the iterations since the last assignment: after
\* Len(wires) of them the loop is back at the same i with the same wires, and
\* never ends
RECURSIVE label_loop(_, _, _, _, _)
label_loop(gs, i, wires, gate_layers, idle) ==
    IF all_have_layer(wires) THEN Return(<<gate_layers, wires>>)
    ELSE IF i >= Len(gs) THEN Panic
    ELSE IF idle >= Len(wires) THEN Diverge
    ELSE LET g == gs[i + 1]
             wire_id == get_output(g)
             x_layer == wires[get_inputs(g)[1] + 1].layer
             y_layer == wires[get_inputs(g)[2] + 1].layer
             ready == /\ ~is_some(wires[wire_id + 1].layer)
                      /\ is_some(x_layer)
                      /\ is_some(y_layer)
             current_layer == current_layer_of(x_layer, y_layer)
         IN  IF ready
             THEN label_loop(gs, next_i(i, wires, gs),
                             [wires EXCEPT ![wire_id + 1].layer = Some(output_layer(current_layer))],
                             push_gate(gate_layers, current_layer, i), 0)
             ELSE label_loop(gs, next_i(i, wires, gs), wires, gate_layers, idle + 1)

label_wires_with_layer(gs, ins, wc) ==
    label_loop(gs, 0, put_input_layers(ins, 1, [w \in 1..wc |-> Wire(None, None)]),
               <<>>, 0)

\* the value loop stopping one marked input short
RECURSIVE put_input_values_skips_last(_, _, _, _)
put_input_values_skips_last(ins, input_values, k, wires) ==
    IF k >= Len(ins) THEN Return(wires)
    ELSE IF k > Len(input_values) THEN Panic
    ELSE put_input_values_skips_last(ins, input_values, k + 1,
                          [wires EXCEPT ![ins[k] + 1].value = Some(input_values[k])])

\* the loop that puts the supplied values on the marked input wires
RECURSIVE put_input_values(_, _, _, _)
put_input_values(ins, input_values, k, wires) ==
    IF k > Len(ins) THEN Return(wires)
    ELSE IF k > Len(input_values) THEN Panic
    ELSE put_input_values(ins, input_values, k + 1,
                          [wires EXCEPT ![ins[k] + 1].value = Some(input_values[k])])

apply_gate(type, in1, in2) == IF type = "Add" THEN in1 + in2 ELSE in1 * in2

\* the two nested loops over the buckets and over the gates of a bucket
RECURSIVE eval_bucket(_, _, _, _), eval_layers(_, _, _, _)
eval_bucket(gs, bucket, k, wires) ==
    IF k > Len(bucket) THEN Return(wires)
    ELSE LET gate == gs[bucket[k] + 1]
             in1 == wires[get_inputs(gate)[1] + 1].value
             in2 == wires[get_inputs(gate)[2] + 1].value
             out == get_output(gate)
         IN  IF ~is_some(in1) \/ ~is_some(in2) THEN Panic
             ELSE eval_bucket(gs, bucket, k + 1,
                      [wires EXCEPT ![out + 1].value =
                          Some(apply_gate(gate_type(gate), unwrap(in1), unwrap(in2)))])

\* the bucket loop running from the last bucket down to the first
RECURSIVE eval_layers_descending(_, _, _, _)
eval_layers_descending(gs, gate_layers, current_layer, wires) ==
    IF current_layer >= Len(gate_layers) THEN Return(wires)
    ELSE LET r == eval_bucket(gs, gate_layers[Len(gate_layers) - current_layer], 1, wires)
         IN  IF r = Panic THEN Panic
             ELSE eval_layers_descending(gs, gate_layers, current_layer + 1, r.v)

eval_layers(gs, gate_layers, current_layer, wires) ==
    IF current_layer >= Len(gate_layers) THEN Return(wires)
    ELSE LET r == eval_bucket(gs, gate_layers[current_layer + 1], 1, wires)
         IN  IF r = Panic THEN Panic
             ELSE eval_layers(gs, gate_layers, current_layer + 1, r.v)

\* eval_local from the point where label_wires_with_layer has returned
\* gate_layers and wires
eval_labelled(gs, ins, outs, input_values, gate_layers, wires) ==
    LET seeded == put_input_values(ins, input_values, 1, wires)
    IN  IF seeded = Panic THEN Panic
        ELSE LET done == eval_layers(gs, gate_layers, 0, seeded.v)
             IN  IF done = Panic THEN Panic
                 ELSE IF ~(\A w \in 1..Len(done.v) :
                              is_some(done.v[w].value) /\ is_some(done.v[w].layer))
                 THEN Err("EmptyWire")
                 ELSE Ok([j \in 1..Len(outs) |-> unwrap(done.v[outs[j] + 1].value)])

eval_local(gs, ins, outs, wc, input_values) ==
    LET labelled == label_wires_with_layer(gs, ins, wc)
    IN  IF labelled.tag # "Return" THEN labelled
        ELSE eval_labelled(gs, ins, outs, input_values, labelled.v[1], labelled.v[2])

LabelWiresWithLayer ==
    /\ call' = "label_wires_with_layer"
    /\ arg' = NoArgs
    /\ ret' = label_wires_with_layer(gates, inputs, wire_count)
    /\ UNCHANGED circuit
    /\ UNCHANGED walk

\* eval_local that takes the marked inputs out of the circuit as it seeds them
EvalLocal_drains_inputs ==
    /\ \E input_values \in [1..Len(inputs) -> Vals] :
          /\ arg' = [tag |-> "input_values", input_values |-> input_values]
          /\ ret' = eval_local(gates, inputs, outputs, wire_count, input_values)
    /\ call' = "eval_local"
    /\ inputs' = <<>>
    /\ UNCHANGED <<outputs, gates, wire_count, gate_count>>
    /\ UNCHANGED walk

EvalLocal ==
    /\ \E input_values \in [1..Len(inputs) -> Vals] :
          /\ arg' = [tag |-> "input_values", input_values |-> input_values]
          /\ ret' = eval_local(gates, inputs, outputs, wire_count, input_values)
    /\ call' = "eval_local"
    /\ UNCHANGED circuit
    /\ UNCHANGED walk

\* the accessors of the circuit
get_wire_count == wire_count
get_gate_count == gate_count
get_all_gates == gates
\* self.gates.get(id): the gate at position id, None beyond the end
get_gate(id) == IF id < Len(gates) THEN Some(gates[id + 1]) ELSE None

\* no activation of detect_cycle
NoWalk == [running |-> FALSE, gate_visited |-> <<>>, stack |-> <<>>, seeds |-> <<>>,
           found |-> None, steps |-> 0]

\* every builder call grows exactly one of the four components by one
builder_calls == wire_count + gate_count + Len(inputs) + Len(outputs)

Init ==
    /\ inputs = <<>>
    /\ outputs = <<>>
    /\ gates = <<>>
    /\ wire_count = 0
    /\ gate_count = 0
    /\ call = "new"
    /\ arg = NoArgs
    /\ ret = Return(Unit)
    /\ walk = NoWalk

\* create_new_wire returning the counter after the increment
CreateNewWire_post_increment ==
    /\ builder_calls < MaxCalls
    /\ wire_count < MaxWires
    /\ wire_count' = wire_count + 1
    /\ call' = "create_new_wire"
    /\ arg' = NoArgs
    /\ ret' = WireId(wire_count + 1)
    /\ UNCHANGED <<inputs, outputs, gates, gate_count>>
    /\ UNCHANGED walk

CreateNewWire ==
    /\ builder_calls < MaxCalls
    /\ wire_count < MaxWires
    /\ wire_count' = wire_count + 1
    /\ call' = "create_new_wire"
    /\ arg' = NoArgs
    /\ ret' = WireId(wire_count)
    /\ UNCHANGED <<inputs, outputs, gates, gate_count>>
    /\ UNCHANGED walk

\* add_gate taking the id after the counter was incremented
AddGate_id_after_increment ==
    /\ builder_calls < MaxCalls
    /\ gate_count < MaxGates
    /\ \E t \in GateType, x \in 0..(wire_count - 1), y \in 0..(wire_count - 1),
          out \in 0..(wire_count - 1) :
          /\ gates' = Append(gates, Gate(t, gate_count + 1, x, y, out))
          /\ arg' = [tag |-> "add_gate", gate_type |-> t, x_id |-> x, y_id |-> y,
                     out_id |-> out]
    /\ gate_count' = gate_count + 1
    /\ call' = "add_gate"
    /\ ret' = GateId(gate_count + 1)
    /\ UNCHANGED <<inputs, outputs, wire_count>>
    /\ UNCHANGED walk

AddGate ==
    /\ builder_calls < MaxCalls
    /\ gate_count < MaxGates
    /\ \E t \in GateType, x \in 0..(wire_count - 1), y \in 0..(wire_count - 1),
          out \in 0..(wire_count - 1) :
          /\ gates' = Append(gates, Gate(t, gate_count, x, y, out))
          /\ arg' = [tag |-> "add_gate", gate_type |-> t, x_id |-> x, y_id |-> y,
                     out_id |-> out]
    /\ gate_count' = gate_count + 1
    /\ call' = "add_gate"
    /\ ret' = GateId(gate_count)
    /\ UNCHANGED <<inputs, outputs, wire_count>>
    /\ UNCHANGED walk

\* mark_input putting the wire at the front of the list
MarkInput_prepends ==
    /\ builder_calls < MaxCalls
    /\ \E w \in 0..(wire_count - 1) :
          /\ inputs' = <<w>> \o inputs
          /\ arg' = [tag |-> "wire_id", wire_id |-> w]
    /\ call' = "mark_input"
    /\ ret' = Return(Unit)
    /\ UNCHANGED <<outputs, gates, wire_count, gate_count>>
    /\ UNCHANGED walk

MarkInput ==
    /\ builder_calls < MaxCalls
    /\ \E w \in 0..(wire_count - 1) :
          /\ inputs' = Append(inputs, w)
          /\ arg' = [tag |-> "wire_id", wire_id |-> w]
    /\ call' = "mark_input"
    /\ ret' = Return(Unit)
    /\ UNCHANGED <<outputs, gates, wire_count, gate_count>>
    /\ UNCHANGED walk

MarkOutput ==
    /\ builder_calls < MaxCalls
    /\ \E w \in 0..(wire_count - 1) :
          /\ outputs' = Append(outputs, w)
          /\ arg' = [tag |-> "wire_id", wire_id |-> w]
    /\ call' = "mark_output"
    /\ ret' = Return(Unit)
    /\ UNCHANGED <<inputs, gates, wire_count, gate_count>>
    /\ UNCHANGED walk

IsValid ==
    /\ call' = "is_valid"
    /\ arg' = NoArgs
    /\ ret' = is_valid(inputs, outputs)
    /\ UNCHANGED circuit
    /\ UNCHANGED walk

Next ==
    \/ CreateNewWire
    \/ AddGate
    \/ MarkInput
    \/ MarkOutput
    \/ IsValid
    \/ DetectCycle
    \/ LabelWiresWithLayer
    \/ EvalLocal

Spec == Init /\ [][Next]_vars

\* ------------------------------------------------------------------ detect_cycle, step by step
\* walk.steps counts the steps the running activation of detect_cycle has
\* taken since it was called
\* one activation of dfs: its arguments, where it stands ("check" before the
\* gate_visited test, "loop" in the for loop), and the position k in
\* wire.to_ids the loop takes next
Frame(gate_id, wire_id) == [gate_id |-> gate_id, wire_id |-> wire_id, pc |-> "check", k |-> 1]

top == walk.stack[Len(walk.stack)]
pop == SubSeq(walk.stack, 1, Len(walk.stack) - 1)

\* detect_cycle is called: wire_connections and the seed set are built, the
\* counters start at 0, the HashSet fixes an iteration order
DetectCycleCall ==
    /\ ~walk.running
    /\ \E order \in Orders(input_gates(gates, inputs)) :
          walk' = [running |-> TRUE, gate_visited |-> [g \in 1..gate_count |-> 0],
                   stack |-> <<>>, seeds |-> order, found |-> None, steps |-> 0]
    /\ UNCHANGED <<circuit, call, arg, ret>>

\* the for loop over input_gates calls dfs(g, 0, ..) for the next seed
SeedLoop ==
    /\ walk.running /\ walk.stack = <<>> /\ walk.found = None /\ walk.seeds # <<>>
    /\ walk' = [walk EXCEPT !.steps = @ + 1,
                            !.stack = <<Frame(Head(walk.seeds), 0)>>,
                            !.seeds = Tail(walk.seeds)]
    /\ UNCHANGED <<circuit, call, arg, ret>>

\* dfs tests gate_visited[id]: non-zero, it returns Some((gate_id, wire_id));
\* zero, it increments the counter and goes on to its loop
DfsCheck ==
    /\ walk.running /\ walk.stack # <<>> /\ top.pc = "check"
    /\ LET id == gates[top.gate_id + 1].id
       IN  IF walk.gate_visited[id + 1] # 0
           THEN walk' = [walk EXCEPT !.steps = @ + 1,
                                     !.found = Some(<<top.gate_id, top.wire_id>>),
                                     !.stack = pop]
           ELSE walk' = [walk EXCEPT !.steps = @ + 1, !.gate_visited[id + 1] = @ + 1,
                                     !.stack[Len(walk.stack)].pc = "loop"]
    /\ UNCHANGED <<circuit, call, arg, ret>>

\* the loop of dfs calling the same consumer over and over
DfsNext_repeats ==
    /\ walk.running /\ walk.stack # <<>> /\ top.pc = "loop" /\ walk.found = None
    /\ LET out == gates[top.gate_id + 1].out
           succ == to_ids(gates, out, 1)
       IN  /\ top.k <= Len(succ)
           /\ walk' = [walk EXCEPT !.steps = @ + 1,
                                   !.stack = Append(walk.stack, Frame(succ[top.k], out))]
    /\ UNCHANGED <<circuit, call, arg, ret>>

\* the loop of dfs calls dfs(next_gate_id, out, ..) for the next consumer of
\* the gate's output wire
DfsNext ==
    /\ walk.running /\ walk.stack # <<>> /\ top.pc = "loop" /\ walk.found = None
    /\ LET out == gates[top.gate_id + 1].out
           succ == to_ids(gates, out, 1)
       IN  /\ top.k <= Len(succ)
           /\ walk' = [walk EXCEPT !.steps = @ + 1, !.stack =
                          Append([walk.stack EXCEPT ![Len(walk.stack)].k = @ + 1],
                                 Frame(succ[top.k], out))]
    /\ UNCHANGED <<circuit, call, arg, ret>>

\* the loop of dfs got Some(pair) from the call it made: return Some(pair)
DfsReturnSome ==
    /\ walk.running /\ walk.stack # <<>> /\ top.pc = "loop" /\ walk.found # None
    /\ walk' = [walk EXCEPT !.steps = @ + 1, !.stack = pop]
    /\ UNCHANGED <<circuit, call, arg, ret>>

\* dfs that returns None without taking the gate off the path
DfsReturnNone_keeps_mark ==
    /\ walk.running /\ walk.stack # <<>> /\ top.pc = "loop" /\ walk.found = None
    /\ top.k > Len(to_ids(gates, gates[top.gate_id + 1].out, 1))
    /\ walk' = [walk EXCEPT !.steps = @ + 1, !.stack = pop]
    /\ UNCHANGED <<circuit, call, arg, ret>>

\* the loop of dfs is through: decrement the counter, return None
DfsReturnNone ==
    /\ walk.running /\ walk.stack # <<>> /\ top.pc = "loop" /\ walk.found = None
    /\ top.k > Len(to_ids(gates, gates[top.gate_id + 1].out, 1))
    /\ walk' = [walk EXCEPT !.steps = @ + 1,
                            !.gate_visited[gates[top.gate_id + 1].id + 1] = @ - 1,
                            !.stack = pop]
    /\ UNCHANGED <<circuit, call, arg, ret>>

\* detect_cycle returns: the pair a walk found, or None after the last seed
DetectCycleReturn ==
    /\ walk.running /\ walk.stack = <<>>
    /\ walk.found # None \/ walk.seeds = <<>>
    /\ call' = "detect_cycle"
    /\ arg' = NoArgs
    /\ ret' = walk.found
    /\ walk' = NoWalk
    /\ UNCHANGED circuit

\* a step of the running detect_cycle
DfsStep ==
    \/ SeedLoop
    \/ DfsCheck
    \/ DfsNext
    \/ DfsReturnSome
    \/ DfsReturnNone
    \/ DetectCycleReturn

\* the circuit is built while no detect_cycle runs on it (it borrows the
\* circuit); marked outputs play no part in detect_cycle
NextDfs ==
    \/ ~walk.running /\ CreateNewWire
    \/ ~walk.running /\ AddGate
    \/ ~walk.running /\ MarkInput
    \/ DetectCycleCall
    \/ SeedLoop
    \/ DfsCheck
    \/ DfsNext
    \/ DfsReturnSome
    \/ DfsReturnNone
    \/ DetectCycleReturn

\* a called function runs on: its next statement is always taken
SpecDfs == Init /\ [][NextDfs]_vars /\ WF_vars(DfsStep)

\* ------------------------------------------------------------------ reference notions
\* positions of the gate sequence
GateIx == 1..Len(gates)
Wires == 0..(wire_count - 1)

IsInput(w) == \E i \in 1..Len(inputs) : inputs[i] = w
Producers(w) == {g \in GateIx : gates[g].out = w}

SingleProducer == \A g, h \in GateIx : g # h => gates[g].out # gates[h].out
NoGateProducesInput == \A g \in GateIx : ~IsInput(gates[g].out)
EveryWireCovered == \A w \in Wires : IsInput(w) \/ Producers(w) # {}

\* gate g feeds gate h: h takes the output wire of g as x or y
Feeds(g, h) == gates[g].out = gates[h].x \/ gates[g].out = gates[h].y

\* a path of at least one and at most n feeding steps leads from g to h
RECURSIVE PathWithin(_, _, _)
PathWithin(g, h, n) ==
    /\ n > 0
    /\ \/ Feeds(g, h)
       \/ \E k \in GateIx : Feeds(g, k) /\ PathWithin(k, h, n - 1)

OnCycle(g) == PathWithin(g, g, Len(gates))
Acyclic == \A g \in GateIx : ~OnCycle(g)

\* the wires a fixpoint scan can ever give a layer: the marked inputs and the
\* outputs of gates whose two inputs it can give a layer
RECURSIVE Grounded(_)
Grounded(S) ==
    LET T == S \cup {w \in Wires : \E g \in Producers(w) : gates[g].x \in S /\ gates[g].y \in S}
    IN  IF T = S THEN S ELSE Grounded(T)

GroundedWires == Grounded({w \in Wires : IsInput(w)})

\* the last position at which w was marked as input
InputIndex(w) == CHOOSE i \in 1..Len(inputs) :
    inputs[i] = w /\ \A j \in 1..Len(inputs) : inputs[j] = w => j <= i

\* the reference value of wire w under the input vector vals (acyclic circuits)
RECURSIVE RefValue(_, _, _)
RefValue(w, vals, fuel) ==
    IF IsInput(w) THEN vals[InputIndex(w)]
    ELSE IF fuel = 0 \/ Producers(w) = {} THEN -1
    ELSE LET g == gates[CHOOSE p \in Producers(w) : TRUE]
             a == RefValue(g.x, vals, fuel - 1)
             b == RefValue(g.y, vals, fuel - 1)
         IN  IF g.type = "Add" THEN a + b ELSE a * b

\* a chain of exactly n gates leads from a marked input wire to wire w
RECURSIVE HasPath(_, _)
HasPath(w, n) ==
    IF n = 0 THEN IsInput(w)
    ELSE \E g \in Producers(w) : HasPath(gates[g].x, n - 1) \/ HasPath(gates[g].y, n - 1)

LongestPath(w) ==
    CHOOSE n \in 0..Len(gates) :
        HasPath(w, n) /\ \A m \in 0..Len(gates) : HasPath(w, m) => m <= n

\* the label_wires_with_layer call returned; its buckets and wire layers
Labelled == call = "label_wires_with_layer" /\ ret.tag = "Return"
Buckets == ret.v[1]
LayerOf(w) == ret.v[2][w + 1].layer
InBucket(g, L) == \E k \in 1..Len(Buckets[L + 1]) : Buckets[L + 1][k] = g - 1

\* ------------------------------------------------------------------ claims

\* C1: on an acyclic, single-producer circuit with no gate producing a marked
\* input and every wire a marked input or a gate output, eval_local returns
\* Ok with the reference values of the marked output wires, in marking order.
C1_EvalReturnsReferenceValues ==
    (/\ call = "eval_local"
     /\ Acyclic /\ SingleProducer /\ NoGateProducesInput /\ EveryWireCovered)
    => ret = Ok([j \in 1..Len(outputs) |-> RefValue(outputs[j], arg.input_values, Len(gates))])

\* C2: on a circuit in which some gate's output reaches one of its own inputs,
\* detect_cycle returns Some and never None.
C2_EveryCycleIsReported ==
    (call = "detect_cycle" /\ \E g \in GateIx : OnCycle(g)) => ret.tag = "Some"

\* C3: on an acyclic circuit detect_cycle returns None, also when a gate is
\* reached along several paths.
C3_AcyclicGivesNone ==
    (call = "detect_cycle" /\ Acyclic) => ret = None

\* an acyclic circuit in which a seed gate is also fed by another seed gate
\* that takes the same wire as x and y, and detect_cycle answered None
C3_Witness ==
    /\ call = "detect_cycle" /\ Acyclic /\ ret = None
    /\ \E g, h \in GateIx :
          /\ g # h /\ Feeds(g, h)
          /\ gates[g].x = gates[g].y
          /\ g - 1 \in input_gates(gates, inputs)
          /\ h - 1 \in input_gates(gates, inputs)

\* C4: when detect_cycle returns Some((g, w)), gate g lies on a cycle and w is
\* an input wire of g that is the output wire of a gate on that cycle.
C4_ReportedPairLiesOnCycle ==
    (call = "detect_cycle" /\ ret.tag = "Some") =>
        LET g == ret.v[1] + 1
            w == ret.v[2]
        IN  /\ g \in GateIx
            /\ OnCycle(g)
            /\ w = gates[g].x \/ w = gates[g].y
            /\ \E p \in GateIx :
                  /\ gates[p].out = w
                  /\ p = g \/ PathWithin(g, p, Len(gates))

\* detect_cycle reported a gate re-entered along a wire other than wire 0
C4_Witness ==
    /\ call = "detect_cycle" /\ ret.tag = "Some"
    /\ ret.v[2] # 0
    /\ gate_count = 2 /\ Feeds(1, 2) /\ Feeds(2, 1)

\* C5: on an acyclic circuit in which every wire is a marked input or a gate
\* output, label_wires_with_layer returns with every wire carrying a layer,
\* whatever the order of the gates.
C5_LabelReturnsAllLayered ==
    (call = "label_wires_with_layer" /\ Acyclic /\ EveryWireCovered) =>
        /\ ret.tag = "Return"
        /\ \A w \in Wires : is_some(LayerOf(w))

\* C6 as stated: bucket L holds exactly the gates whose output wire has layer L.
C6_BucketIndexIsOutputLayer ==
    Labelled =>
        \A L \in 0..(Len(Buckets) - 1) : \A g \in GateIx :
            InBucket(g, L) <=> LayerOf(gates[g].out) = Some(L)

\* C6 amended: every gate of bucket L has its output wire at layer L + 1, and
\* on a single-producer circuit with no gate producing a marked input every
\* gate is in the bucket one below its output wire's layer.
C6_BucketIndexIsOutputLayerMinusOne ==
    Labelled =>
        /\ \A L \in 0..(Len(Buckets) - 1) : \A g \in GateIx :
              InBucket(g, L) => LayerOf(gates[g].out) = Some(L + 1)
        /\ (SingleProducer /\ NoGateProducesInput) =>
              \A g \in GateIx :
                  /\ unwrap(LayerOf(gates[g].out)) - 1 \in 0..(Len(Buckets) - 1)
                  /\ InBucket(g, unwrap(LayerOf(gates[g].out)) - 1)

\* a returned labelling with two buckets of one gate each
C6_Witness ==
    /\ Labelled /\ SingleProducer /\ NoGateProducesInput
    /\ Len(Buckets) = 2 /\ Buckets[1] # <<>> /\ Buckets[2] # <<>>

\* C7: on a valid acyclic circuit on which label_wires_with_layer returns,
\* every gate's output layer is strictly above both of its input layers.
C7_OutputLayerAboveInputs ==
    (Labelled /\ Acyclic /\ SingleProducer /\ NoGateProducesInput) =>
        \A g \in GateIx :
            /\ unwrap(LayerOf(gates[g].out)) > unwrap(LayerOf(gates[g].x))
            /\ unwrap(LayerOf(gates[g].out)) > unwrap(LayerOf(gates[g].y))

\* a returned labelling of a valid circuit with a gate whose inputs lie on
\* different layers
C7_Witness ==
    /\ Labelled /\ Acyclic /\ SingleProducer /\ NoGateProducesInput
    /\ \E g \in GateIx : LayerOf(gates[g].x) # LayerOf(gates[g].y)

\* C8: when label_wires_with_layer returns on a single-producer circuit with
\* no gate producing a marked input, marked inputs have layer 0, a gate output
\* has layer max(layer(x), layer(y)) + 1, and every wire's layer is the length
\* of the longest gate path from a marked input to it.
C8_LayerIsLongestPath ==
    (Labelled /\ SingleProducer /\ NoGateProducesInput) =>
        /\ \A w \in Wires : IsInput(w) => LayerOf(w) = Some(0)
        /\ \A g \in GateIx :
              LayerOf(gates[g].out) =
                  Some(Max(unwrap(LayerOf(gates[g].x)), unwrap(LayerOf(gates[g].y))) + 1)
        /\ \A w \in Wires : LayerOf(w) = Some(LongestPath(w))

\* a returned labelling in which a wire has a shorter and a longer path from
\* the marked inputs
C8_Witness ==
    /\ Labelled /\ SingleProducer /\ NoGateProducesInput
    /\ \E w \in Wires : HasPath(w, 1) /\ HasPath(w, 2)

C10_MissingLayerGivesEmptyWire ==
    (call = "eval_local" /\ GroundedWires # Wires) => ret = Err("EmptyWire")

SeqOrders(b) ==
    {[k \in 1..Len(b) |-> b[f[k]]] :
        f \in {h \in [1..Len(b) -> 1..Len(b)] :
                  \A i, j \in 1..Len(b) : i # j => h[i] # h[j]}}

Reorderings(gate_layers) ==
    {p \in [1..Len(gate_layers) ->
               UNION {SeqOrders(gate_layers[L]) : L \in 1..Len(gate_layers)}] :
        \A L \in 1..Len(gate_layers) : p[L] \in SeqOrders(gate_layers[L])}

\* what label_wires_with_layer returns on the circuit as it is
LabelNow == label_wires_with_layer(gates, inputs, wire_count)

\* C12: no gate of a bucket takes the output wire of another gate of that
\* bucket, no two gates of a bucket write the same wire, and eval_local
\* returns the same whatever the order of the gates inside each bucket.
C12_BucketGatesIndependent ==
    /\ Labelled =>
          \A L \in 0..(Len(Buckets) - 1) : \A g, h \in GateIx :
              (g # h /\ InBucket(g, L) /\ InBucket(h, L)) =>
                  /\ ~Feeds(g, h)
                  /\ gates[g].out # gates[h].out
    /\ (call = "eval_local" /\ LabelNow.tag = "Return") =>
          LET seeded == put_input_values(inputs, arg.input_values, 1, LabelNow.v[2]).v
          IN  \A p \in Reorderings(LabelNow.v[1]) :
                  /\ LET a == eval_layers(gates, p, 0, seeded)
                         b == eval_layers(gates, LabelNow.v[1], 0, seeded)
                     IN  /\ a.tag = b.tag
                         /\ a.tag = "Return" =>
                               \A w \in 1..wire_count : a.v[w].value = b.v[w].value
                  /\ eval_labelled(gates, inputs, outputs, arg.input_values, p,
                                   LabelNow.v[2]) = ret

\* eval_local returned on a circuit with a bucket of two gates of different
\* types
C12_Witness ==
    /\ call = "eval_local" /\ ret.tag = "Ok"
    /\ gate_count = 2 /\ gates[1].type # gates[2].type
    /\ \E L \in 1..Len(LabelNow.v[1]) : Len(LabelNow.v[1][L]) = 2

\* C13: starting from a new circuit, each create_new_wire call returns the
\* wire counter as it was before the call and raises it by one, and no other
\* call moves it: the k-th call (from 0) returns WireId(k), the returned ids
\* strictly increase, all lie below get_wire_count(), and get_wire_count() is
\* the number of create_new_wire calls.
C13_WireIdsAreSequential ==
    /\ get_wire_count = 0
    /\ [][/\ call' = "create_new_wire" =>
                /\ ret' = WireId(get_wire_count)
                /\ get_wire_count' = get_wire_count + 1
                /\ ret'.n < get_wire_count'
                /\ call = "create_new_wire" => ret'.n > ret.n
          /\ call' # "create_new_wire" => get_wire_count' = get_wire_count]_vars

\* the third create_new_wire call returned, after a gate was added
C13_Witness ==
    /\ call = "create_new_wire" /\ ret = WireId(2)
    /\ get_wire_count = 3 /\ gate_count >= 1

\* C14: starting from a new circuit, each add_gate call returns the gate
\* counter as it was before the call and appends a gate of the requested
\* variant with that id and the given x, y and out at that position, leaving
\* the earlier gates in place, and no other call touches the gates; so
\* get_gate_count() is the length of get_all_gates(), get_gate(k) is the gate
\* whose id field is k for k < get_gate_count(), and None for larger k.
C14_GateIdsAreSequential ==
    /\ get_gate_count = 0 /\ get_all_gates = <<>>
    /\ [][/\ call' = "add_gate" =>
                /\ ret' = GateId(get_gate_count)
                /\ get_gate_count' = get_gate_count + 1
                /\ Len(get_all_gates') = Len(get_all_gates) + 1
                /\ \A k \in 1..Len(get_all_gates) : get_all_gates'[k] = get_all_gates[k]
                /\ LET g == get_all_gates'[ret'.n + 1]
                   IN  /\ gate_type(g) = arg'.gate_type
                       /\ g.id = ret'.n
                       /\ get_inputs(g) = <<arg'.x_id, arg'.y_id>>
                       /\ get_output(g) = arg'.out_id
          /\ call' # "add_gate" =>
                get_gate_count' = get_gate_count /\ get_all_gates' = get_all_gates
          /\ get_gate_count' = Len(get_all_gates')
          /\ \A k \in 0..(MaxGates + 1) :
                IF k < get_gate_count'
                THEN get_gate(k)'.tag = "Some" /\ get_gate(k)'.v.id = k
                ELSE get_gate(k)' = None]_vars

\* the second add_gate call returned 1, with a variant other than the first
C14_Witness ==
    /\ call = "add_gate" /\ ret = GateId(1)
    /\ get_gate_count = 2 /\ gate_type(gates[1]) # gate_type(gates[2])
    /\ get_gate(1) = Some(gates[2]) /\ get_gate(2) = None

C16_ValidAcyclicNeverEmptyWire ==
    (/\ call = "eval_local"
     /\ is_valid(inputs, outputs) = Ok(Unit)
     /\ Acyclic)
        => ret # Err("EmptyWire")

\* eval_local returned Ok on a valid acyclic circuit whose only marked output
\* is produced by a gate fed from the only marked input
C16_Witness ==
    /\ call = "eval_local" /\ ret.tag = "Ok"
    /\ Len(inputs) = 1 /\ Len(outputs) = 1 /\ Acyclic
    /\ \E g \in GateIx :
          /\ gates[g].out = outputs[1] /\ gates[g].out # inputs[1]
          /\ gates[g].x = inputs[1] /\ gates[g].y = inputs[1]

\* C17: when label_wires_with_layer returns on the circuit and eval_local is
\* given one value per marked input, no unwrap of an input value hits None
\* (the call returns Ok or Err), because the buckets are taken in ascending
\* order and each input wire of a gate of bucket L is a marked input or the
\* output of a gate of a bucket below L.
C17_GateInputsReady ==
    (call = "eval_local" /\ LabelNow.tag = "Return"
        /\ Len(arg.input_values) = Len(inputs)) =>
        /\ ret.tag \in {"Ok", "Err"}
        /\ LET gate_layers == LabelNow.v[1]
           IN  \A L \in 1..Len(gate_layers) : \A k \in 1..Len(gate_layers[L]) :
                   LET gate == gates[gate_layers[L][k] + 1]
                   IN  \A w \in {get_inputs(gate)[1], get_inputs(gate)[2]} :
                           \/ IsInput(w)
                           \/ \E M \in 1..(L - 1) : \E j \in 1..Len(gate_layers[M]) :
                                  get_output(gates[gate_layers[M][j] + 1]) = w

\* eval_local returned Ok on a circuit labelled with two buckets, the gate of
\* the second consuming the output of the gate of the first
C17_Witness ==
    /\ call = "eval_local" /\ ret.tag = "Ok"
    /\ LabelNow.tag = "Return" /\ Len(LabelNow.v[1]) = 2
    /\ Len(LabelNow.v[1][1]) = 1 /\ Len(LabelNow.v[1][2]) = 1
    /\ Feeds(LabelNow.v[1][1][1] + 1, LabelNow.v[1][2][1] + 1)

\* the number of places of the buckets that hold the gate identifier id
GateOccurrences(gate_layers, id) ==
    Cardinality({lk \in (1..Len(gate_layers)) \X (1..MaxGates) :
                    lk[2] <= Len(gate_layers[lk[1]]) /\ gate_layers[lk[1]][lk[2]] = id})

\* in the buckets: identifiers of gates only, none twice, and every gate once
\* when the circuit is acyclic, single-producer and produces no marked input
EachGateOnce(gate_layers) ==
    /\ \A L \in 1..Len(gate_layers) : \A k \in 1..Len(gate_layers[L]) :
          gate_layers[L][k] \in 0..(gate_count - 1)
    /\ \A id \in 0..(gate_count - 1) : GateOccurrences(gate_layers, id) <= 1
    /\ (Acyclic /\ SingleProducer /\ NoGateProducesInput) =>
          \A id \in 0..(gate_count - 1) : GateOccurrences(gate_layers, id) = 1

\* C19: in the buckets returned by label_wires_with_layer every gate
\* identifier occurs at most once, and every gate of the circuit exactly once
\* when the circuit is acyclic, single-producer and has no gate producing a
\* marked input; the same holds of the buckets eval_local walks, so it
\* evaluates each gate exactly once.
C19_EachGateInOneBucket ==
    /\ Labelled => EachGateOnce(Buckets)
    /\ (call = "eval_local" /\ LabelNow.tag = "Return") => EachGateOnce(LabelNow.v[1])

\* label_wires_with_layer returned on an acyclic single-producer circuit
\* with two gates fed by the marked input, both in the first bucket
C19_Witness ==
    /\ Labelled /\ gate_count = 2
    /\ Acyclic /\ SingleProducer /\ NoGateProducesInput
    /\ Len(Buckets) = 1 /\ Len(Buckets[1]) = 2

\* the gate of position g is on the current DFS path: a dfs call on it has
\* passed the gate_visited test and has not returned
OnPath(g) ==
    \E f \in 1..Len(walk.stack) :
        walk.stack[f].pc = "loop" /\ gates[walk.stack[f].gate_id + 1].id = g - 1

\* C18 as stated: while detect_cycle runs, every counter is 0 or 1, it is 1
\* exactly for the gates on the current DFS path, and between two seeds
\* every counter is 0.
C18_CounterIsOnPath ==
    walk.running =>
        /\ \A g \in GateIx : walk.gate_visited[g] \in {0, 1}
        /\ \A g \in GateIx : walk.gate_visited[g] = 1 <=> OnPath(g)
        /\ (walk.stack = <<>> /\ walk.found = None) =>
              \A g \in GateIx : walk.gate_visited[g] = 0

\* C18: while detect_cycle runs, every counter is 0 or 1 and is 1 for every
\* gate on the current DFS path; as long as no revisited gate has been found
\* it is 1 for those gates only, and between two seeds every counter is 0.
C18_CounterIsOnPathUntilFound ==
    walk.running =>
        /\ \A g \in GateIx : walk.gate_visited[g] \in {0, 1}
        /\ \A g \in GateIx : OnPath(g) => walk.gate_visited[g] = 1
        /\ walk.found = None =>
              \A g \in GateIx : walk.gate_visited[g] = 1 => OnPath(g)
        /\ (walk.stack = <<>> /\ walk.found = None) =>
              \A g \in GateIx : walk.gate_visited[g] = 0

\* the walk from the first seed has returned None and a second seed is
\* still to be walked
C18_Witness ==
    /\ walk.running /\ walk.stack = <<>> /\ walk.found = None
    /\ walk.seeds # <<>>
    /\ Len(walk.seeds) < Cardinality(input_gates(gates, inputs))

\* a bound on the dfs calls the walk from one seed makes down to depth d
\* below it: a call makes at most one call per entry of wire.to_ids, and a
\* wire has at most two entries per gate
RECURSIVE DfsCallBound(_, _)
DfsCallBound(G, d) == IF d = 0 THEN 1 ELSE 1 + 2 * G * DfsCallBound(G, d - 1)

\* a bound on the steps of one detect_cycle: at most one seed per gate, and
\* per dfs call the call, the gate_visited test and the return
StepBound == 3 * gate_count * DfsCallBound(gate_count, gate_count)

\* C20 as stated: a running detect_cycle has a next step until it returns
\* and returns within a number of steps fixed by the number of gates, and
\* the dfs activations on the stack never outnumber the gates.
C20_TerminatesWithinGateCount ==
    walk.running =>
        /\ ENABLED DfsStep
        /\ walk.steps <= StepBound
        /\ Len(walk.stack) <= gate_count

\* C20: a running detect_cycle has a next step until it returns and returns
\* within a number of steps fixed by the number of gates; the dfs
\* activations on the stack never outnumber the gates by more than one:
\* those past the gate_visited test are on distinct gates, and only the
\* topmost can be before it.
C20_TerminatesWithinGateCountPlusOne ==
    walk.running =>
        /\ ENABLED DfsStep
        /\ walk.steps <= StepBound
        /\ Len(walk.stack) <= gate_count + 1
        /\ \A f, h \in 1..Len(walk.stack) :
              /\ (f # h /\ walk.stack[f].pc = "loop" /\ walk.stack[h].pc = "loop")
                    => walk.stack[f].gate_id # walk.stack[h].gate_id
              /\ walk.stack[f].pc = "check" => f = Len(walk.stack)

\* every run of detect_cycle returns, given that a called function runs on
DetectCycleReturns == walk.running ~> ~walk.running

\* a dfs call is about to find its gate on the path, one activation per
\* gate below it
C20_Witness ==
    /\ walk.running /\ gate_count = 2
    /\ Len(walk.stack) = gate_count + 1 /\ top.pc = "check"

\* what the stepwise detect_cycle returns is what the one-step detect_cycle
\* returns for some iteration order of the seed set
DfsStepsAgree ==
    [][DetectCycleReturn =>
          \E order \in Orders(input_gates(gates, inputs)) :
              ret' = detect_cycle(gates, inputs, order)]_vars

\* a path of at least one and at most n feeding steps leads from g to h, the
\* wire of every step (the output of the feeding gate) not a marked input
RECURSIVE UnmarkedPathWithin(_, _, _)
UnmarkedPathWithin(g, h, n) ==
    /\ n > 0
    /\ ~IsInput(gates[g].out)
    /\ \/ Feeds(g, h)
       \/ \E k \in GateIx : Feeds(g, k) /\ UnmarkedPathWithin(k, h, n - 1)

\* the circuit contains a cycle none of whose wires is a marked input
HasUnmarkedCycle == \E g \in GateIx : UnmarkedPathWithin(g, g, Len(gates))

\* C21 as stated: on a circuit containing a cycle none of whose wires is a
\* marked input, eval_local does not return Ok and label_wires_with_layer
\* does not return.
C21_UnmarkedCycleNeverOk ==
    /\ (call = "eval_local" /\ HasUnmarkedCycle) => ret.tag # "Ok"
    /\ (call = "label_wires_with_layer" /\ HasUnmarkedCycle) => ret.tag # "Return"

\* C21: on a single-producer circuit containing a cycle none of whose wires
\* is a marked input, label_wires_with_layer does not return (it panics or
\* never ends), and so eval_local returns neither Ok nor Err.
C21_SingleProducerUnmarkedCycleNeverOk ==
    (call \in {"eval_local", "label_wires_with_layer"}
        /\ SingleProducer /\ HasUnmarkedCycle) =>
        ret.tag \in {"Panic", "Diverge"}

\* eval_local was called on a single-producer circuit with a marked input
\* feeding a gate and, apart from it, a gate that consumes its own output
C21_Witness ==
    /\ call = "eval_local" /\ ret.tag \in {"Panic", "Diverge"}
    /\ SingleProducer /\ HasUnmarkedCycle
    /\ inputs # <<>> /\ gate_count = 2
    /\ \E g \in GateIx : IsInput(gates[g].x) /\ IsInput(gates[g].y)

====
